---- MODULE Spec2Model ----
(***************************************************************************)
(* Model of package filterdir (filterdir.go): the FilterDir overlay over   *)
(* an http.Dir (Open in discovery mode and in filter mode, the include map *)
(* built once under loadOnce, Readdir on the File of a filter-mode Open,   *)
(* saveList and generateAssets) and the access recorder started by         *)
(* processRequests (a goroutine that selects over the buffered requests    *)
(* channel and the unbuffered query, answer, changed and clear channels of *)
(* sortedList).                                                            *)
(*                                                                         *)
(* Paths are Go strings, modelled as sequences of one-character strings so *)
(* that strings.Split, strings.Join and the byte-wise string order used by *)
(* sort.StringSlice are computed rather than assumed.                      *)
(***************************************************************************)
EXTENDS Integers, Sequences, FiniteSets, TLC

(***************************************************************************)
(* Bounds of the model.                                                    *)
(***************************************************************************)

\* Capacity of the requests channel.  The code makes it with capacity 100
\* (New, make(chan string, 100)); the model scales it down so that the full
\* channel is reached.
RequestsCap == 2

\* Longest path (in characters) that an initial IncludeList may hold.
MaxPathLen == 4

\* Longest initial IncludeList.
MaxListLen == 2

(***************************************************************************)
(* Strings.                                                                *)
(***************************************************************************)

\* The characters of the paths of an initial IncludeList.
ListChars == {"/", "a"}

\* Byte value of a character, the order Go compares strings by.
Ord(c) == CASE c = "/" -> 47
            [] c = "a" -> 97
            [] c = "b" -> 98

RECURSIVE StrLess(_, _)
\* s < t for Go strings: byte-wise lexicographic, a proper prefix is smaller.
StrLess(s, t) ==
    IF t = <<>> THEN FALSE
    ELSE IF s = <<>> THEN TRUE
    ELSE IF Ord(Head(s)) < Ord(Head(t)) THEN TRUE
    ELSE IF Ord(Head(s)) > Ord(Head(t)) THEN FALSE
    ELSE StrLess(Tail(s), Tail(t))

Range(s) == {s[i] : i \in 1..Len(s)}

RECURSIVE SplitFrom(_, _, _)
\* strings.Split(s, "/"), scanning s with cur the segment being read and acc
\* the segments already closed by a separator.
SplitFrom(s, cur, acc) ==
    IF s = <<>> THEN Append(acc, cur)
    ELSE IF Head(s) = "/" THEN SplitFrom(Tail(s), <<>>, Append(acc, cur))
    ELSE SplitFrom(Tail(s), Append(cur, Head(s)), acc)

Split(s) == SplitFrom(s, <<>>, <<>>)

RECURSIVE Join(_)
\* strings.Join(segs, "/")
Join(segs) ==
    IF segs = <<>> THEN <<>>
    ELSE IF Len(segs) = 1 THEN segs[1]
    ELSE segs[1] \o <<"/">> \o Join(Tail(segs))

RECURSIVE InsertSorted(_, _)
InsertSorted(x, s) ==
    IF s = <<>> THEN <<x>>
    ELSE IF StrLess(Head(s), x) THEN <<Head(s)>> \o InsertSorted(x, Tail(s))
    ELSE <<x>> \o s

RECURSIVE SortStrings(_)
\* sort.StringSlice(list).Sort(): the list in ascending string order.
SortStrings(s) ==
    IF s = <<>> THEN <<>> ELSE InsertSorted(Head(s), SortStrings(Tail(s)))

(***************************************************************************)
(* Values.                                                                 *)
(***************************************************************************)

\* The nil error.
Nil == "nil"

\* The nil http.File.
NilFile == [nilFile |-> TRUE]

\* os.ErrNotExist, the error Open returns for a path the filter hides.
ErrNotExist == "os.ErrNotExist"

\* Errors http.Dir.Open can return: the path does not exist, or it may not
\* be read.
StoreErrors == {"ENOENT", "EACCES"}

\* os.IsNotExist(err)
IsNotExist(err) == err \in {ErrNotExist, "ENOENT"}

\* The http.File that http.Dir.Open returns for name.
StoreFile(name) == [dirFile |-> name]

\* The store field of an Open that has not called f.dir.Open.
StoreNotCalled == [file |-> NilFile, err |-> Nil]

Root == <<"/">>

\* The paths callers open in discovery mode.
Names == {<<"/", "a">>, <<"/", "b">>}

\* The paths callers open in filter mode.
FilterNames == {Root, <<"/", "a">>, <<"/", "a", "/", "a">>}

\* Goroutines that can be inside a discovery-mode Open, between f.dir.Open
\* and the send on f.requests.
Openers == {"o1", "o2"}

\* Goroutines calling the sortedList methods (the console's poller and key
\* handlers).
Callers == {"c1", "c2"}

\* The names of the entries a directory of the store can have.
EntryNames == {<<"a">>, <<"b">>}

\* What f.File.Readdir can return as info: the entries read by the call, a
\* directory having no two entries of the same name.
StoreListings ==
    {<<>>} \cup {<<x>> : x \in EntryNames}
           \cup {p \in EntryNames \X EntryNames : p[1] # p[2]}

\* What f.File.Readdir can return as err: nil, or io.EOF at the end of the
\* directory when count > 0.
ReaddirErrors == {Nil, "io.EOF"}

RECURSIVE SeqsUpTo(_, _)
\* All sequences over S of length at most n.
SeqsUpTo(S, n) ==
    IF n = 0 THEN {<<>>}
    ELSE LET shorter == SeqsUpTo(S, n - 1)
         IN  shorter \cup {Append(s, x) : s \in shorter, x \in S}

\* Absolute paths: strings that start with the separator.
AbsPaths == {p \in SeqsUpTo(ListChars, MaxPathLen) : p # <<>> /\ p[1] = "/"}

\* The include lists a program may set in IncludeList before the first Open.
InitLists == SeqsUpTo(AbsPaths, MaxListLen)

\* The include lists of the programs whose first Opens run at the same time.
LoadLists ==
    {<<>>, << <<"/", "a">> >>, << <<"/", "a", "a">>, <<"/", "a", "/", "a">> >>}

\* The lists the console passes to saveList and generateAssets: results of
\* List().
AdminLists ==
    {<<>>, << <<"/", "a">> >>, << <<"/", "b">> >>,
     << <<"/", "a">>, <<"/", "b">> >>}

\* What writing the list file and vfsgen.Generate can return.
AdminErrors == {Nil, "error"}

(***************************************************************************)
(* State.                                                                  *)
(***************************************************************************)

VARIABLES
    FilterMode,     \* FilterDir.FilterMode
    IncludeList,    \* FilterDir.IncludeList
    include,        \* FilterDir.include as the set of its keys (the nil map
                    \* before loadIncludeList has no key)
    loadDone,       \* FilterDir.loadOnce has run its function
    loadIdx,        \* loadIncludeList: the entries of IncludeList already
                    \* added to the map
    builds,         \* history: the maps loadIncludeList has made
    startDone,      \* FilterDir.startOnce has run its function
    requests,       \* FilterDir.requests: the buffered channel's contents
    rpc,            \* the recorder goroutine: "none" before processRequests,
                    \* "select" at the select, "answer" at achan <- sortedList
    changed,        \* processRequests: changed
    includeList,    \* processRequests: includeList
    includeMap,     \* processRequests: includeMap, as the set of true keys
    sortedList,     \* processRequests: the copy being sent on achan
    shared,         \* the slice last sent on achan has the array of
                    \* includeList as its array
    opc,            \* each opener: "idle", or "send" at f.requests <- name
    oname,          \* each opener: the name it is sending, else empty
    cpc,            \* each caller: "idle", or "recv" at <-l.a inside List
    ret,            \* the last call that returned: which, and its result
    opened,         \* history: paths of the discovery-mode Opens that have
                    \* returned a file since the last Clear
    recorded,       \* history: paths taken from requests since the last Clear
    mutSinceChg,    \* history: the set was mutated since the last Changed()
    mutSinceList,   \* history: the set was mutated since the last List() query
    sinceClear,     \* history: what was processed since the last Clear
    asker           \* history: the caller whose query is being answered

onceVars == <<include, loadDone, loadIdx, builds>>
overlayVars == <<FilterMode, IncludeList, onceVars, startDone>>
recorderVars == <<rpc, changed, includeList, includeMap, sortedList, shared>>
historyVars == <<opened, recorded, mutSinceChg, mutSinceList, sinceClear,
                 asker>>
vars == <<FilterMode, IncludeList, include, loadDone, loadIdx, builds,
          startDone, requests, rpc, changed, includeList, includeMap,
          sortedList, shared, opc, oname, cpc, ret, opened, recorded,
          mutSinceChg, mutSinceList, sinceClear, asker>>

\* ret before any call has returned.
NoCall == [op |-> "none"]

\* ret after Open(name) has returned (file, err), f.dir.Open having returned
\* store; filter is the FilterMode the Open has read, or would have read had
\* f.dir.Open not failed.
OpenRet(name, store, file, err) ==
    [op |-> "Open", filter |-> FilterMode, name |-> name, store |-> store,
     file |-> file, err |-> err]

\* ret after Readdir has returned (info, err) on the File file that Open
\* returned for dir, f.File.Readdir having returned store.
ReaddirRet(dir, file, store, info, err) ==
    [op |-> "Readdir", dir |-> dir, file |-> file, panic |-> FALSE,
     store |-> store, info |-> info, err |-> err]

\* ret after Readdir has panicked on the File file that Open returned for
\* dir.
ReaddirPanic(dir, file) ==
    [op |-> "Readdir", dir |-> dir, file |-> file, panic |-> TRUE]

\* ret after saveList or generateAssets has returned err.
AdminRet(op, err) == [op |-> op, err |-> err]

\* ret after List() has returned list.
ListRet(list) == [op |-> "List", list |-> list]

\* ret when the array of includeList has become list: a List() result that
\* has this array as its own reads its elements from it.
Held(list) ==
    IF ret.op = "List" /\ shared
    THEN ListRet(SubSeq(list, 1, Len(ret.list)))
    ELSE ret

\* ret after Changed() has returned b.
ChangedRet(b) == [op |-> "Changed", val |-> b]

\* ret after Clear() has returned.
ClearRet == [op |-> "Clear"]

\* sinceClear before any Clear: cleared says that a Clear has been processed,
\* and record and list that a request and a List() query have been processed
\* since the last one.
NoClear == [cleared |-> FALSE, record |-> FALSE, list |-> FALSE]

\* sinceClear after the recorder has processed op.
Noted(op) ==
    IF ~sinceClear.cleared THEN sinceClear
    ELSE CASE op = "record" -> [sinceClear EXCEPT !.record = TRUE]
           [] op = "list" -> [sinceClear EXCEPT !.list = TRUE]

\* asker while no query is being answered.
NoCaller == "none"

\* New: the FilterDir as constructed, before the program sets the exported
\* fields, and with no goroutine started.
InitCommon ==
    /\ include = {}
    /\ loadDone = FALSE
    /\ loadIdx = 0
    /\ builds = 0
    /\ startDone = FALSE
    /\ requests = <<>>
    /\ rpc = "none"
    /\ changed = FALSE
    /\ includeList = <<>>
    /\ includeMap = {}
    /\ sortedList = <<>>
    /\ shared = FALSE
    /\ opc = [o \in Openers |-> "idle"]
    /\ oname = [o \in Openers |-> <<>>]
    /\ cpc = [c \in Callers |-> "idle"]
    /\ ret = NoCall
    /\ opened = {}
    /\ recorded = {}
    /\ mutSinceChg = FALSE
    /\ mutSinceList = FALSE
    /\ sinceClear = NoClear
    /\ asker = NoCaller

\* Discovery mode: FilterMode keeps its zero value.
Init ==
    /\ FilterMode = FALSE
    /\ IncludeList = <<>>
    /\ InitCommon

\* Filter mode: the program sets FilterMode and IncludeList before serving.
InitFilter ==
    /\ FilterMode = TRUE
    /\ IncludeList \in InitLists
    /\ InitCommon

(***************************************************************************)
(* FilterDir.                                                              *)
(***************************************************************************)

\* IncludeDirs with the loop started at i := 1.
IncludeDirs_From1(file) ==
    LET dirs == Split(file)
    IN  {Join(SubSeq(dirs, 1, i)) : i \in 1..(Len(dirs) - 1)}

\* The entries the inner loop of loadIncludeList adds for one file.
IncludeDirs(file) ==
    LET dirs == Split(file)
    IN  {Join(SubSeq(dirs, 1, i)) : i \in 2..(Len(dirs) - 1)}

\* The map loadIncludeList builds from list.
loadIncludeList(list) ==
    {Root} \cup UNION {{list[k]} \cup IncludeDirs(list[k]) : k \in 1..Len(list)}

\* OpenStoreFail with the send on f.requests made before err is tested.
OpenStoreFail_Records(name, e) ==
    /\ Len(requests) < RequestsCap
    /\ requests' = IF FilterMode THEN requests ELSE Append(requests, name)
    /\ ret' = OpenRet(name, [file |-> NilFile, err |-> e], NilFile, e)
    /\ UNCHANGED <<overlayVars, recorderVars, opc, oname, cpc, historyVars>>

\* Open by any goroutine, f.dir.Open fails with e: the error is returned as
\* it is.
OpenStoreFail(name, e) ==
    /\ ret' = OpenRet(name, [file |-> NilFile, err |-> e], NilFile, e)
    /\ UNCHANGED <<overlayVars, requests, recorderVars, opc, oname, cpc,
                   historyVars>>

\* Open with FilterMode false, f.dir.Open succeeded: startOnce starts the
\* console goroutine and the opener reaches the send on f.requests.
OpenDiscovery(o, name) ==
    /\ opc[o] = "idle"
    /\ FilterMode = FALSE
    /\ startDone' = TRUE
    /\ opc' = [opc EXCEPT ![o] = "send"]
    /\ oname' = [oname EXCEPT ![o] = name]
    /\ UNCHANGED <<FilterMode, IncludeList, onceVars, requests,
                   recorderVars, cpc, ret, historyVars>>

\* OpenSend on a channel made without a buffer: the send waits for the
\* recorder to be at its select.
OpenSend_Unbuffered(o) ==
    /\ opc[o] = "send"
    /\ rpc = "select"
    /\ requests = <<>>
    /\ requests' = Append(requests, oname[o])
    /\ opc' = [opc EXCEPT ![o] = "idle"]
    /\ oname' = [oname EXCEPT ![o] = <<>>]
    /\ ret' = [OpenRet(oname[o], [file |-> StoreFile(oname[o]), err |-> Nil],
                        StoreFile(oname[o]), Nil) EXCEPT !.filter = FALSE]
    /\ opened' = opened \cup {oname[o]}
    /\ UNCHANGED <<overlayVars, recorderVars, cpc, recorded, mutSinceChg,
                   mutSinceList, sinceClear, asker>>

\* f.requests <- name, which waits while the channel is full, and the return
\* of the opened file, by an Open that has read FilterMode as false.
OpenSend(o) ==
    /\ opc[o] = "send"
    /\ Len(requests) < RequestsCap
    /\ requests' = Append(requests, oname[o])
    /\ opc' = [opc EXCEPT ![o] = "idle"]
    /\ oname' = [oname EXCEPT ![o] = <<>>]
    /\ ret' = [OpenRet(oname[o], [file |-> StoreFile(oname[o]), err |-> Nil],
                        StoreFile(oname[o]), Nil) EXCEPT !.filter = FALSE]
    /\ opened' = opened \cup {oname[o]}
    /\ UNCHANGED <<overlayVars, recorderVars, cpc, recorded, mutSinceChg,
                   mutSinceList, sinceClear, asker>>

\* OpenFilter with the startOnce.Do and the send on f.requests made before
\* FilterMode is tested.
OpenFilter_Records(name) ==
    /\ FilterMode = TRUE
    /\ Len(requests) < RequestsCap
    /\ startDone' = TRUE
    /\ requests' = Append(requests, name)
    /\ LET inc == IF loadDone THEN include ELSE loadIncludeList(IncludeList)
       IN  /\ include' = inc
           /\ loadDone' = TRUE
           /\ loadIdx' = IF loadDone THEN loadIdx ELSE Len(IncludeList)
           /\ builds' = IF loadDone THEN builds ELSE builds + 1
           /\ ret' =
                IF name \in inc
                THEN OpenRet(name, [file |-> StoreFile(name), err |-> Nil],
                             [File |-> StoreFile(name), name |-> name,
                              include |-> inc],
                             Nil)
                ELSE OpenRet(name, [file |-> StoreFile(name), err |-> Nil],
                             NilFile, ErrNotExist)
    /\ UNCHANGED <<FilterMode, IncludeList, recorderVars, opc, oname, cpc,
                   historyVars>>

\* OpenFilter that returns the file of f.dir.Open as it is.
OpenFilter_NoWrap(name) ==
    /\ FilterMode = TRUE
    /\ LET inc == IF loadDone THEN include ELSE loadIncludeList(IncludeList)
       IN  /\ include' = inc
           /\ loadDone' = TRUE
           /\ loadIdx' = IF loadDone THEN loadIdx ELSE Len(IncludeList)
           /\ builds' = IF loadDone THEN builds ELSE builds + 1
           /\ ret' =
                IF name \in inc
                THEN OpenRet(name, [file |-> StoreFile(name), err |-> Nil],
                             StoreFile(name), Nil)
                ELSE OpenRet(name, [file |-> StoreFile(name), err |-> Nil],
                             NilFile, ErrNotExist)
    /\ UNCHANGED <<FilterMode, IncludeList, startDone, requests, recorderVars,
                   opc, oname, cpc, historyVars>>

\* Open by any goroutine with FilterMode true, f.dir.Open succeeded: loadOnce
\* builds the include map on the first call, then the name is looked up in
\* it.
OpenFilter(name) ==
    /\ FilterMode = TRUE
    /\ LET inc == IF loadDone THEN include ELSE loadIncludeList(IncludeList)
       IN  /\ include' = inc
           /\ loadDone' = TRUE
           /\ loadIdx' = IF loadDone THEN loadIdx ELSE Len(IncludeList)
           /\ builds' = IF loadDone THEN builds ELSE builds + 1
           /\ ret' =
                IF name \in inc
                THEN OpenRet(name, [file |-> StoreFile(name), err |-> Nil],
                             [File |-> StoreFile(name), name |-> name,
                              include |-> inc],
                             Nil)
                ELSE OpenRet(name, [file |-> StoreFile(name), err |-> Nil],
                             NilFile, ErrNotExist)
    /\ UNCHANGED <<FilterMode, IncludeList, startDone, requests, recorderVars,
                   opc, oname, cpc, historyVars>>

\* Open with FilterMode true, step by step, for the Opens that run at the
\* same time.  f.dir.Open succeeded and opener o has read FilterMode as true:
\* it reaches f.loadOnce.Do.
OpenFilterStart(o, name) ==
    /\ opc[o] = "idle"
    /\ FilterMode = TRUE
    /\ opc' = [opc EXCEPT ![o] = "once"]
    /\ oname' = [oname EXCEPT ![o] = name]
    /\ UNCHANGED <<overlayVars, requests, recorderVars, cpc, ret, historyVars>>

\* OnceEnter for a Once that does not hold its mutex while the function
\* runs: a second caller enters while the first is still building.
OnceEnter_Unlocked(o) ==
    /\ opc[o] = "once"
    /\ ~loadDone
    /\ opc' = [opc EXCEPT ![o] = "load"]
    /\ include' = {Root}
    /\ loadIdx' = 0
    /\ builds' = builds + 1
    /\ UNCHANGED <<FilterMode, IncludeList, loadDone, startDone, requests,
                   recorderVars, oname, cpc, ret, historyVars>>

\* loadOnce.Do finds the function not yet run and no other caller running it:
\* o runs loadIncludeList, which makes the map and adds "/".
OnceEnter(o) ==
    /\ opc[o] = "once"
    /\ ~loadDone
    /\ \A q \in Openers : opc[q] # "load"
    /\ opc' = [opc EXCEPT ![o] = "load"]
    /\ include' = {Root}
    /\ loadIdx' = 0
    /\ builds' = builds + 1
    /\ UNCHANGED <<FilterMode, IncludeList, loadDone, startDone, requests,
                   recorderVars, oname, cpc, ret, historyVars>>

\* One round of the loop of loadIncludeList: the next file of IncludeList and
\* its directories are added.
LoadFile(o) ==
    /\ opc[o] = "load"
    /\ loadIdx < Len(IncludeList)
    /\ LET file == IncludeList[loadIdx + 1]
       IN  include' = include \cup {file} \cup IncludeDirs(file)
    /\ loadIdx' = loadIdx + 1
    /\ UNCHANGED <<FilterMode, IncludeList, loadDone, builds, startDone,
                   requests, recorderVars, opc, oname, cpc, ret, historyVars>>

\* loadIncludeList returns and loadOnce.Do marks the function as run.
OnceDone(o) ==
    /\ opc[o] = "load"
    /\ loadIdx = Len(IncludeList)
    /\ loadDone' = TRUE
    /\ opc' = [opc EXCEPT ![o] = "lookup"]
    /\ UNCHANGED <<FilterMode, IncludeList, include, loadIdx, builds,
                   startDone, requests, recorderVars, oname, cpc, ret,
                   historyVars>>

\* loadOnce.Do finds the function already run and returns.
OnceSkip(o) ==
    /\ opc[o] = "once"
    /\ loadDone
    /\ opc' = [opc EXCEPT ![o] = "lookup"]
    /\ UNCHANGED <<overlayVars, requests, recorderVars, oname, cpc, ret,
                   historyVars>>

\* The lookup of the name in f.include and the return.
OpenLookup(o) ==
    /\ opc[o] = "lookup"
    /\ LET name == oname[o]
       IN  ret' =
             IF name \in include
             THEN OpenRet(name, [file |-> StoreFile(name), err |-> Nil],
                          [File |-> StoreFile(name), name |-> name,
                           include |-> include],
                          Nil)
             ELSE OpenRet(name, [file |-> StoreFile(name), err |-> Nil],
                          NilFile, ErrNotExist)
    /\ opc' = [opc EXCEPT ![o] = "idle"]
    /\ oname' = [oname EXCEPT ![o] = <<>>]
    /\ UNCHANGED <<overlayVars, requests, recorderVars, cpc, historyVars>>

\* saveList(list) called by the console, which startGUI runs once it has
\* started the recorder; e is what writing the list file comes to.
saveList(list, e) ==
    /\ rpc # "none"
    /\ IncludeList' = list
    /\ ret' = AdminRet("saveList", e)
    /\ UNCHANGED <<FilterMode, onceVars, startDone, requests, recorderVars,
                   opc, oname, cpc, historyVars>>

\* generateAssets that leaves filter mode again when vfsgen.Generate fails.
generateAssets_UndoneOnError(list, e) ==
    /\ rpc # "none"
    /\ IncludeList' = list
    /\ FilterMode' = (e = Nil)
    /\ ret' = AdminRet("generateAssets", e)
    /\ UNCHANGED <<onceVars, startDone, requests, recorderVars, opc, oname,
                   cpc, historyVars>>

\* generateAssets(list) called by the console; e is what vfsgen.Generate
\* returns.
generateAssets(list, e) ==
    /\ rpc # "none"
    /\ IncludeList' = list
    /\ FilterMode' = TRUE
    /\ ret' = AdminRet("generateAssets", e)
    /\ UNCHANGED <<onceVars, startDone, requests, recorderVars, opc, oname,
                   cpc, historyVars>>

\* StripSlash that leaves the name as it is.
StripSlash_Never(name) == name

\* name without its last character when that is the separator.
StripSlash(name) ==
    IF name[Len(name)] = "/" THEN SubSeq(name, 1, Len(name) - 1) ELSE name

\* newInfo: the entries of info whose path under name is in the map.
Filtered(name, info, inc) ==
    SelectSeq(info, LAMBDA i : (name \o <<"/">> \o i) \in inc)

\* ret holds a File: the last call that returned is a filter-mode Open that
\* succeeded, or a Readdir on such a File.
HoldsFile ==
    \/ ret.op = "Open" /\ ret.filter /\ ret.err = Nil
    \/ ret.op = "Readdir"

\* Readdir on the File that ret holds, f.File.Readdir returning (info, err):
\* a last "/" is cut off f.name, which stays cut, and the entries are looked
\* up in the File's include map.  f.name[len(f.name)-1:] panics when f.name
\* is empty.
Readdir(info, err) ==
    /\ HoldsFile
    /\ LET f == ret.file
           dir == IF ret.op = "Open" THEN ret.name ELSE ret.dir
       IN  IF f.name = <<>>
           THEN ret' = ReaddirPanic(dir, f)
           ELSE LET name == StripSlash(f.name)
                IN  ret' = ReaddirRet(dir, [f EXCEPT !.name = name],
                                      [info |-> info, err |-> err],
                                      Filtered(name, info, f.include), err)
    /\ UNCHANGED <<overlayVars, requests, recorderVars, opc, oname, cpc,
                   historyVars>>

(***************************************************************************)
(* The recorder: processRequests and sortedList.                           *)
(***************************************************************************)

\* startGUI that sets up the console without calling processRequests: no
\* goroutine receives from f.requests.
StartGUI_NoRecorder ==
    /\ startDone
    /\ rpc = "none"
    /\ UNCHANGED vars

\* startGUI, run in the goroutine that startOnce started: processRequests
\* makes the channels and the empty list and map and starts the recorder.
StartGUI ==
    /\ startDone
    /\ rpc = "none"
    /\ rpc' = "select"
    /\ changed' = FALSE
    /\ includeList' = <<>>
    /\ includeMap' = {}
    /\ UNCHANGED <<overlayVars, requests, sortedList, shared, opc, oname,
                   cpc, ret, historyVars>>

\* RecvRequest without the includeMap[r] == false test: every request is
\* appended.
RecvRequest_NoDedup ==
    /\ rpc = "select"
    /\ requests # <<>>
    /\ LET r == Head(requests)
       IN  /\ requests' = Tail(requests)
           /\ includeMap' = includeMap \cup {r}
           /\ includeList' = Append(includeList, r)
           /\ changed' = TRUE
           /\ recorded' = recorded \cup {r}
           /\ mutSinceChg' = (mutSinceChg \/ r \notin recorded)
           /\ mutSinceList' = (mutSinceList \/ r \notin recorded)
           /\ sinceClear' = Noted("record")
    /\ UNCHANGED <<overlayVars, rpc, sortedList, shared, opc, oname, cpc,
                   ret, opened, asker>>

\* RecvRequest that marks the path in includeMap but does not append it.
RecvRequest_NoAppend ==
    /\ rpc = "select"
    /\ requests # <<>>
    /\ LET r == Head(requests)
       IN  /\ requests' = Tail(requests)
           /\ IF r \notin includeMap
              THEN /\ includeMap' = includeMap \cup {r}
                   /\ changed' = TRUE
              ELSE UNCHANGED <<includeMap, changed>>
           /\ recorded' = recorded \cup {r}
           /\ mutSinceChg' = (mutSinceChg \/ r \notin recorded)
           /\ mutSinceList' = (mutSinceList \/ r \notin recorded)
           /\ sinceClear' = Noted("record")
    /\ UNCHANGED <<overlayVars, rpc, includeList, sortedList, shared, opc,
                   oname, cpc, ret, opened, asker>>

\* case r := <-requests
RecvRequest ==
    /\ rpc = "select"
    /\ requests # <<>>
    /\ LET r == Head(requests)
       IN  /\ requests' = Tail(requests)
           /\ IF r \notin includeMap
              THEN /\ includeMap' = includeMap \cup {r}
                   /\ includeList' = Append(includeList, r)
                   /\ changed' = TRUE
              ELSE UNCHANGED <<includeMap, includeList, changed>>
           /\ recorded' = recorded \cup {r}
           /\ mutSinceChg' = (mutSinceChg \/ r \notin recorded)
           /\ mutSinceList' = (mutSinceList \/ r \notin recorded)
           /\ sinceClear' = Noted("record")
    /\ UNCHANGED <<overlayVars, rpc, sortedList, shared, opc, oname, cpc,
                   ret, opened, asker>>

\* RecvQuery without the sort.
RecvQuery_NoSort(c) ==
    /\ rpc = "select"
    /\ cpc[c] = "idle"
    /\ changed' = FALSE
    /\ sortedList' = includeList
    /\ shared' = FALSE
    /\ rpc' = "answer"
    /\ cpc' = [cpc EXCEPT ![c] = "recv"]
    /\ mutSinceList' = FALSE
    /\ sinceClear' = Noted("list")
    /\ asker' = c
    /\ UNCHANGED <<overlayVars, requests, includeList, includeMap, opc, oname,
                   ret, opened, recorded, mutSinceChg>>

\* RecvQuery that sends includeList itself instead of a copy.
RecvQuery_NoCopy(c) ==
    /\ rpc = "select"
    /\ cpc[c] = "idle"
    /\ includeList' = IF changed THEN SortStrings(includeList) ELSE includeList
    /\ changed' = FALSE
    /\ sortedList' = includeList'
    /\ shared' = TRUE
    /\ ret' = Held(includeList')
    /\ rpc' = "answer"
    /\ cpc' = [cpc EXCEPT ![c] = "recv"]
    /\ mutSinceList' = FALSE
    /\ sinceClear' = Noted("list")
    /\ asker' = c
    /\ UNCHANGED <<overlayVars, requests, includeMap, opc, oname, opened,
                   recorded, mutSinceChg>>

\* case <-qchan, with caller c inside List at l.q <- struct{}{}: the list is
\* sorted in place if changed is set, which a slice that has the array of
\* includeList sees, and copied into a slice of its own for the answer.
RecvQuery(c) ==
    /\ rpc = "select"
    /\ cpc[c] = "idle"
    /\ includeList' = IF changed THEN SortStrings(includeList) ELSE includeList
    /\ changed' = FALSE
    /\ sortedList' = includeList'
    /\ shared' = FALSE
    /\ ret' = Held(includeList')
    /\ rpc' = "answer"
    /\ cpc' = [cpc EXCEPT ![c] = "recv"]
    /\ mutSinceList' = FALSE
    /\ sinceClear' = Noted("list")
    /\ asker' = c
    /\ UNCHANGED <<overlayVars, requests, includeMap, opc, oname, opened,
                   recorded, mutSinceChg>>

\* SendAnswer with a caller that receives on l.a without its query having
\* been taken (a query channel with a buffer).
SendAnswer_AnyReceiver(c) ==
    /\ rpc = "answer"
    /\ ret' = ListRet(sortedList)
    /\ sortedList' = <<>>
    /\ rpc' = "select"
    /\ cpc' = [cpc EXCEPT ![c] = "idle"]
    /\ asker' = NoCaller
    /\ UNCHANGED <<overlayVars, requests, changed, includeList, includeMap,
                   shared, opc, oname, opened, recorded, mutSinceChg,
                   mutSinceList, sinceClear>>

\* achan <- sortedList, with caller c inside List at <-l.a.
SendAnswer(c) ==
    /\ rpc = "answer"
    /\ cpc[c] = "recv"
    /\ ret' = ListRet(sortedList)
    /\ sortedList' = <<>>
    /\ rpc' = "select"
    /\ cpc' = [cpc EXCEPT ![c] = "idle"]
    /\ asker' = NoCaller
    /\ UNCHANGED <<overlayVars, requests, changed, includeList, includeMap,
                   shared, opc, oname, opened, recorded, mutSinceChg,
                   mutSinceList, sinceClear>>

\* SendChanged that also resets changed once it has been reported.
SendChanged_Resets(c) ==
    /\ rpc = "select"
    /\ cpc[c] = "idle"
    /\ ret' = ChangedRet(changed)
    /\ changed' = FALSE
    /\ mutSinceChg' = FALSE
    /\ UNCHANGED <<overlayVars, requests, rpc, includeList, includeMap,
                   sortedList, shared, opc, oname, cpc, opened, recorded,
                   mutSinceList, sinceClear, asker>>

\* case cchan <- changed, with caller c inside Changed at <-l.chg.
SendChanged(c) ==
    /\ rpc = "select"
    /\ cpc[c] = "idle"
    /\ ret' = ChangedRet(changed)
    /\ mutSinceChg' = FALSE
    /\ UNCHANGED <<overlayVars, requests, recorderVars, opc, oname, cpc,
                   opened, recorded, mutSinceList, sinceClear, asker>>

\* RecvClear without changed = true.
RecvClear_NoMark(c) ==
    /\ rpc = "select"
    /\ cpc[c] = "idle"
    /\ includeList' = <<>>
    /\ includeMap' = {}
    /\ opened' = {}
    /\ recorded' = {}
    /\ mutSinceChg' = TRUE
    /\ mutSinceList' = TRUE
    /\ sinceClear' = [NoClear EXCEPT !.cleared = TRUE]
    /\ ret' = ClearRet
    /\ shared' = FALSE
    /\ UNCHANGED <<overlayVars, requests, rpc, changed, sortedList, opc,
                   oname, cpc, asker>>

\* case <-clear, with caller c inside Clear at l.c <- struct{}{}: includeList
\* gets an array of its own, which no slice sent before has.
RecvClear(c) ==
    /\ rpc = "select"
    /\ cpc[c] = "idle"
    /\ includeList' = <<>>
    /\ includeMap' = {}
    /\ changed' = TRUE
    /\ opened' = {}
    /\ recorded' = {}
    /\ mutSinceChg' = TRUE
    /\ mutSinceList' = TRUE
    /\ sinceClear' = [NoClear EXCEPT !.cleared = TRUE]
    /\ ret' = ClearRet
    /\ shared' = FALSE
    /\ UNCHANGED <<overlayVars, requests, rpc, sortedList, opc, oname, cpc,
                   asker>>

(***************************************************************************)
(* Specifications.                                                         *)
(***************************************************************************)

\* A program that leaves FilterMode false: every Open is recorded.
Next ==
    \/ \E name \in Names, e \in StoreErrors : OpenStoreFail(name, e)
    \/ \E o \in Openers, name \in Names : OpenDiscovery(o, name)
    \/ \E o \in Openers : OpenSend(o)
    \/ StartGUI
    \/ RecvRequest
    \/ \E c \in Callers : RecvQuery(c)
    \/ \E c \in Callers : SendAnswer(c)
    \/ \E c \in Callers : SendChanged(c)
    \/ \E c \in Callers : RecvClear(c)

Spec == Init /\ [][Next]_vars

\* Spec with the scheduling the Go runtime gives: the goroutine of startGUI
\* runs; a select takes, among the cases that are ready, one chosen at
\* random, so a case that is ready again and again is taken; a send that has
\* its receiver waiting completes; and senders that wait on a full channel
\* are served in turn when it has room.
SpecFair ==
    /\ Spec
    /\ WF_vars(StartGUI)
    /\ SF_vars(RecvRequest)
    /\ \A c \in Callers : WF_vars(SendAnswer(c))
    /\ \A o \in Openers : SF_vars(OpenSend(o))

\* A program that sets FilterMode and IncludeList before it serves: every
\* Open is filtered.
NextFilter ==
    \/ \E name \in FilterNames, e \in StoreErrors : OpenStoreFail(name, e)
    \/ \E name \in FilterNames : OpenFilter(name)
    \/ \E info \in StoreListings, err \in ReaddirErrors : Readdir(info, err)

SpecFilter == InitFilter /\ [][NextFilter]_vars

\* A program that starts in either mode and whose console saves the list and
\* generates the assets, any number of times, while Opens go on and the
\* recorder takes their requests.
InitAdmin ==
    /\ FilterMode \in BOOLEAN
    /\ IncludeList \in AdminLists
    /\ InitCommon

NextAdmin ==
    \/ \E name \in Names, e \in StoreErrors : OpenStoreFail(name, e)
    \/ \E o \in Openers, name \in Names : OpenDiscovery(o, name)
    \/ \E o \in Openers : OpenSend(o)
    \/ StartGUI
    \/ RecvRequest
    \/ \E name \in Names : OpenFilter(name)
    \/ \E list \in AdminLists, e \in AdminErrors : saveList(list, e)
    \/ \E list \in AdminLists, e \in AdminErrors : generateAssets(list, e)

SpecAdmin == InitAdmin /\ [][NextAdmin]_vars

\* A program in filter mode whose Opens run at the same time, the first ones
\* before the include map is built.
InitLoad ==
    /\ FilterMode = TRUE
    /\ IncludeList \in LoadLists
    /\ InitCommon

NextLoad ==
    \/ \E o \in Openers, name \in FilterNames : OpenFilterStart(o, name)
    \/ \E o \in Openers : OnceEnter(o)
    \/ \E o \in Openers : LoadFile(o)
    \/ \E o \in Openers : OnceDone(o)
    \/ \E o \in Openers : OnceSkip(o)
    \/ \E o \in Openers : OpenLookup(o)

SpecLoad == InitLoad /\ [][NextLoad]_vars

(***************************************************************************)
(* Properties of the recorder.                                             *)
(***************************************************************************)

NoDuplicates(s) == \A i, j \in 1..Len(s) : i # j => s[i] # s[j]

IsSorted(s) == \A i, j \in 1..Len(s) : i < j => ~StrLess(s[j], s[i])

\* C1: the ordered sequence and the membership set hold the same paths, each
\* once, and they are exactly the paths taken from the request queue since
\* the start or the last Clear; the snapshot computed for a query holds each
\* of these paths exactly once, and a snapshot that was returned has no path
\* twice.
C1_SequenceAndSetAgree ==
    /\ Range(includeList) = includeMap
    /\ NoDuplicates(includeList)
    /\ includeMap = recorded
    /\ rpc = "answer" =>
          /\ NoDuplicates(sortedList)
          /\ Range(sortedList) = recorded
    /\ ret.op = "List" => NoDuplicates(ret.list)

\* A snapshot of two paths is being answered while the queue holds a path
\* that is already recorded and another Open is about to send.
C1_Witness ==
    /\ rpc = "answer"
    /\ Len(sortedList) = 2
    /\ requests # <<>>
    /\ Head(requests) \in includeMap
    /\ \E o \in Openers : opc[o] = "send"

\* C2: every sequence that List() returns, and every sequence computed for a
\* query, is in ascending string order.
C2_SnapshotSorted ==
    /\ rpc = "answer" => IsSorted(sortedList)
    /\ ret.op = "List" => IsSorted(ret.list)

\* A List() that returned ["/b"] was followed by the Record of "/a", which
\* left the recorder's list as ["/b", "/a"]; the next query is being answered
\* with ["/a", "/b"].
C2_Witness ==
    /\ ret.op = "List"
    /\ ret.list = << <<"/", "b">> >>
    /\ rpc = "answer"
    /\ sortedList = << <<"/", "a">>, <<"/", "b">> >>

\* C3, as claimed: the snapshot computed for a List() query holds the path of
\* every discovery-mode Open that had returned when the query was taken.
C3_SnapshotHasOpened ==
    [][\A c \in Callers :
          RecvQuery(c) => opened \subseteq Range(sortedList')]_vars

\* C3, amended: the snapshot computed for a List() query holds, once each and
\* in ascending order, the path of every discovery-mode Open that had
\* returned, except the paths still waiting in the request queue.
C3_SnapshotHasTaken ==
    [][\A c \in Callers :
          RecvQuery(c) =>
             /\ (opened \ Range(requests)) \subseteq Range(sortedList')
             /\ NoDuplicates(sortedList')
             /\ IsSorted(sortedList')]_vars

\* Opens of "/a" and "/b" have returned, all their Records have been taken
\* from the queue, and List() has returned ["/a", "/b"].
C3_Witness ==
    /\ ret.op = "List"
    /\ ret.list = << <<"/", "a">>, <<"/", "b">> >>
    /\ includeList = ret.list
    /\ opened = Range(ret.list)
    /\ requests = <<>>
    /\ \A o \in Openers : opc[o] = "idle"

\* C4, as claimed: after a Clear, a List() query processed before any further
\* request returns the empty sequence, and the first Changed() answered after
\* the Clear reports true, whatever was processed in between.
C4_ChangedAfterClear ==
    [][\A c \in Callers :
          /\ (RecvQuery(c) /\ sinceClear.cleared /\ ~sinceClear.record)
                => sortedList' = <<>>
          /\ (SendChanged(c) /\ sinceClear.cleared /\ ~sinceClear.record
                /\ mutSinceChg)
                => ret'.val = TRUE]_vars

\* C4, amended: when the last call that returned is a List() whose query came
\* after a Clear with no request processed since that Clear, it returned the
\* empty sequence; when it is a Changed() answered after a Clear with no
\* List() query processed since that Clear, it returned true.
C4_AfterClear ==
    /\ (ret.op = "List" /\ sinceClear.cleared /\ ~sinceClear.record)
          => ret.list = <<>>
    /\ (rpc = "answer" /\ sinceClear.cleared /\ ~sinceClear.record)
          => sortedList = <<>>
    /\ (ret.op = "Changed" /\ sinceClear.cleared /\ ~sinceClear.list)
          => ret.val = TRUE

\* Changed() has reported true after a Clear that emptied the set, with no
\* List() query and no request processed since.
C4_Witness ==
    /\ ret.op = "Changed"
    /\ ret.val = TRUE
    /\ sinceClear.cleared
    /\ ~sinceClear.list
    /\ ~sinceClear.record
    /\ includeList = <<>>
    /\ requests # <<>>

\* C5, as claimed: Changed() reports true exactly when the set was mutated
\* since the previous Changed(), whatever List() queries came in between.
C5_ChangedSinceChanged ==
    [][\A c \in Callers : SendChanged(c) => ret'.val = mutSinceChg]_vars

\* C5, amended: Changed() reports true exactly when the set was mutated since
\* the last List() query (since the start when there was none), and it leaves
\* the flag as it is.
C5_ChangedSinceList ==
    [][\A c \in Callers :
          SendChanged(c) => (ret'.val = mutSinceList /\ changed' = changed)]_vars

\* Changed() has reported true although nothing was mutated since the
\* previous Changed(): the mutation is still unseen by List().
C5_Witness ==
    /\ ret.op = "Changed"
    /\ ret.val = TRUE
    /\ mutSinceList
    /\ ~mutSinceChg
    /\ includeList # <<>>

(***************************************************************************)
(* Properties of the overlay.                                              *)
(***************************************************************************)

\* The non-empty prefixes of p that end just before a separator.
Ancestors(p) == {SubSeq(p, 1, k - 1) : k \in {j \in 2..Len(p) : p[j] = "/"}}

\* The root, the listed paths and the ancestors of the listed paths.
InclusionSet(list) ==
    {Root} \cup Range(list) \cup UNION {Ancestors(p) : p \in Range(list)}

\* C6: once built, the include map holds exactly the root, every path of
\* IncludeList and every strict ancestor directory of such a path.
C6_InclusionSetIsClosure ==
    loadDone => include = InclusionSet(IncludeList)

\* The include map built from ["/a/a", "/aa"] is {"/", "/a", "/a/a", "/aa"}.
C6_Witness ==
    /\ loadDone
    /\ IncludeList = << <<"/", "a", "/", "a">>, <<"/", "a", "a">> >>
    /\ include = {<<"/">>, <<"/", "a">>, <<"/", "a", "/", "a">>,
                  <<"/", "a", "a">>}

\* C7: in filter mode, an Open of a path outside the inclusion set fails with
\* the not-found condition, whatever f.dir.Open answers for the path.
C7_VetoIsNotFound ==
    (ret.op = "Open" /\ ret.filter /\ ret.name \notin InclusionSet(IncludeList))
       => IsNotExist(ret.err)

\* C8: in filter mode, an Open of a path in the inclusion set returns the
\* error of f.dir.Open as it is, and otherwise a File that carries the file of
\* f.dir.Open, the path and the overlay's include map.
C8_MemberGetsStoreOutcome ==
    (ret.op = "Open" /\ ret.filter /\ ret.name \in InclusionSet(IncludeList))
       => IF ret.store.err # Nil
          THEN ret.err = ret.store.err /\ ret.file = NilFile
          ELSE /\ ret.err = Nil
               /\ ret.file = [File |-> ret.store.file, name |-> ret.name,
                              include |-> include]
               /\ include = InclusionSet(IncludeList)

\* An Open of "/a", listed only as the ancestor of "/a/a", has returned a
\* File.
C8_Witness ==
    /\ ret.op = "Open"
    /\ ret.filter
    /\ ret.name = <<"/", "a">>
    /\ IncludeList = << <<"/", "a", "/", "a">> >>
    /\ ret.err = Nil
    /\ ret.file.name = ret.name

\* C9, as claimed: an Open that has reached the send of its Record is never
\* made to wait.
C9_SendNeverWaits ==
    \A o \in Openers : opc[o] = "send" => ENABLED OpenSend(o)

\* C9, amended: an Open that has reached the send of its Record waits exactly
\* when the request queue holds RequestsCap Records, whether the recorder is
\* started, at its select or answering a query; and the Open then returns the
\* file of f.dir.Open and no error.
C9_SendWaitsOnlyWhenFull ==
    /\ \A o \in Openers :
          opc[o] = "send" =>
             (ENABLED OpenSend(o) <=> Len(requests) < RequestsCap)
    /\ (ret.op = "Open" /\ ~ret.filter /\ ret.store.err = Nil)
          => (ret.err = Nil /\ ret.file = ret.store.file)

\* An Open can send although the recorder is answering a query and Records
\* are waiting in the queue.
C9_Witness ==
    /\ rpc = "answer"
    /\ requests # <<>>
    /\ Len(requests) < RequestsCap
    /\ \E o \in Openers : opc[o] = "send" /\ ENABLED OpenSend(o)

\* C10: in discovery mode, an Open for which f.dir.Open fails returns that
\* error and no file, and leaves the request queue, the recorder's list and
\* map and startOnce as they were.
C10_FailedOpenRecordsNothing ==
    [][\A name \in Names, e \in StoreErrors :
          (OpenStoreFail(name, e) /\ ~FilterMode) =>
             /\ ret'.err = e
             /\ ret'.file = NilFile
             /\ UNCHANGED <<requests, includeList, includeMap, startDone,
                            opc>>]_vars

\* An Open of "/b" has failed while the Records of other paths are queued and
\* recorded: "/b" is in neither the queue nor the recorder's set.
C10_Witness ==
    /\ ret.op = "Open"
    /\ ~ret.filter
    /\ ret.err \in StoreErrors
    /\ ret.name = <<"/", "b">>
    /\ requests # <<>>
    /\ includeMap # {}
    /\ ret.name \notin Range(requests) \cup includeMap

(***************************************************************************)
(* Properties of Readdir, of the concurrent build of the include map, of   *)
(* the mode switch, of the traversal and of the recorder's protocol.       *)
(***************************************************************************)

\* C11: a Readdir on a File that a filter-mode Open returned for a directory
\* returns the entries f.File.Readdir returned for the call, in their order,
\* that are in the File's include map under the directory's path with one
\* last "/" cut off, and returns the error of f.File.Readdir as it is.
C11_ReaddirFiltersListing ==
    ret.op = "Readdir" =>
       /\ ~ret.panic
       /\ ret.info = Filtered(StripSlash(ret.dir), ret.store.info,
                              ret.file.include)
       /\ ret.err = ret.store.err

\* C12: the include map is made at most once; an Open that has come out of
\* loadOnce.Do looks its name up in the complete map, also when it reached
\* loadOnce.Do while another Open was building it; and the File an Open
\* returns carries the overlay's map.
C12_BuiltOnceAndWhole ==
    /\ builds <= 1
    /\ \A o \in Openers :
          opc[o] = "lookup" =>
             /\ loadDone
             /\ include = loadIncludeList(IncludeList)
    /\ (ret.op = "Open" /\ ret.filter /\ ret.err = Nil) =>
          /\ ret.file.include = include
          /\ ret.name \in loadIncludeList(IncludeList)
    /\ (ret.op = "Open" /\ ret.filter /\ ret.err = ErrNotExist) =>
          ret.name \notin loadIncludeList(IncludeList)

\* One Open is building the map, with "/aa" added and "/a/a" still to add,
\* while the other waits in loadOnce.Do for a name that is not yet in it.
C12_Witness ==
    /\ opc["o1"] = "load"
    /\ opc["o2"] = "once"
    /\ loadIdx = 1
    /\ Len(IncludeList) = 2
    /\ builds = 1
    /\ oname["o2"] \in loadIncludeList(IncludeList) \ include

\* C13: an Open made while FilterMode is true, whether it returns a File, is
\* vetoed or fails in f.dir.Open, leaves the request queue and the recorder's
\* list and map as they were, sends no opener to the send on f.requests, and
\* starts neither the console nor the recorder.
C13_FilterModeRecordsNothing ==
    [][\A name \in Names, e \in StoreErrors :
          (FilterMode /\ (OpenFilter(name) \/ OpenStoreFail(name, e))) =>
             UNCHANGED <<requests, includeList, includeMap, startDone, rpc,
                         opc>>]_vars

\* A filter-mode Open of "/b" has returned a File while the recorder runs
\* and holds requests of the discovery-mode Opens made before: "/b" is in
\* neither the queue nor the recorder's set.
C13_Witness ==
    /\ ret.op = "Open"
    /\ ret.filter
    /\ ret.err = Nil
    /\ ret.name = <<"/", "b">>
    /\ rpc = "select"
    /\ requests # <<>>
    /\ includeMap # {}
    /\ ret.name \notin Range(requests) \cup includeMap

\* C15: whenever FilterMode is true, an Open that succeeds is the Open of a
\* path of the current IncludeList or of an ancestor directory of one,
\* whatever lists saveList and generateAssets have set before.
C15_OnlyCurrentListVisible ==
    (ret.op = "Open" /\ ret.filter /\ ret.err = Nil)
       => ret.name \in InclusionSet(IncludeList)

\* C20: FilterMode, once true, stays true; generateAssets leaves it true
\* whatever vfsgen.Generate returns; and while it is true no Open reaches the
\* send on f.requests, so that the only paths still recorded are those of
\* the Opens that had read FilterMode before.
C20_FilterModeIsOneWay ==
    [][/\ FilterMode => FilterMode'
       /\ \A list \in AdminLists, e \in AdminErrors :
             generateAssets(list, e) => FilterMode'
       /\ FilterMode =>
             /\ \A o \in Openers : opc'[o] = "send" => opc[o] = "send"
             /\ Len(requests') > Len(requests) =>
                   \E o \in Openers :
                      opc[o] = "send" /\ requests' = Append(requests, oname[o])
      ]_vars

\* generateAssets has returned the error of vfsgen.Generate, the second time
\* it was called: FilterMode is true and the map built for the first list is
\* in use, while an Open that read FilterMode before the first call is still
\* at its send.
C20_Witness ==
    /\ ret.op = "generateAssets"
    /\ ret.err # Nil
    /\ FilterMode
    /\ loadDone
    /\ include # loadIncludeList(IncludeList)
    /\ \E o \in Openers : opc[o] = "send"

\* C14: a sequence that List() has returned stays as it was returned through
\* every later step of the recorder (a Record, a Clear, the sort in place and
\* the copy of a later query), until the next List() returns.
C14_SnapshotIsCopy ==
    [][(ret.op = "List" /\ ret'.op = "List"
          /\ ~(\E c \in Callers : SendAnswer(c)))
         => ret'.list = ret.list]_vars

\* List() has returned ["/b"]; "/a" was recorded after it and a later query
\* has sorted the recorder's list in place into ["/a", "/b"]: the sequence
\* returned before still reads ["/b"].
C14_Witness ==
    /\ ret.op = "List"
    /\ ret.list = << <<"/", "b">> >>
    /\ includeList = << <<"/", "a">>, <<"/", "b">> >>
    /\ changed = FALSE
    /\ recorded = Range(includeList)

\* C16: in filter mode, an Open of a path outside the inclusion set does not
\* call f.dir.Open, so that no file of the store is opened for it and left
\* neither returned nor closed.
C16_VetoSkipsStore ==
    (ret.op = "Open" /\ ret.filter /\ ret.name \notin InclusionSet(IncludeList))
       => /\ ret.store = StoreNotCalled
          /\ ret.store.file # NilFile => ret.file # NilFile

\* The segments of the node of the store that f.dir.Open opens for p:
\* http.Dir cleans the path, which drops the empty segments.
Segments(p) == SelectSeq(Split(p), LAMBDA seg : seg # <<>>)

\* The path a walk from the root opens for the first i segments: the root,
\* or the segments joined to the root.
WalkPath(segs, i) ==
    IF i = 0 THEN Root ELSE <<"/">> \o Join(SubSeq(segs, 1, i))

\* p is written as the walk writes it: no empty segment, no "/" at the end.
IsClean(p) == p = WalkPath(Segments(p), Len(Segments(p)))

\* A walk from the root reaches the node of p: every directory on the way is
\* opened by Open, and a Readdir on it that reads the entry of the next
\* segment returns that entry.
WalkReaches(p, inc) ==
    LET segs == Segments(p)
    IN  \A i \in 0..(Len(segs) - 1) :
           LET d == WalkPath(segs, i)
           IN  /\ d \in inc
               /\ Filtered(StripSlash(d), <<segs[i + 1]>>, inc)
                     = <<segs[i + 1]>>

\* C17, as claimed: once the include map is built, a walk from the root
\* reaches the node of every absolute path of IncludeList.
C17_WalkReachesEveryPath ==
    loadDone =>
       \A k \in 1..Len(IncludeList) : WalkReaches(IncludeList[k], include)

\* C17, amended: once the include map is built, a walk from the root reaches
\* the node of every absolute path of IncludeList that has no empty segment
\* and no "/" at its end, and the Open of that path itself passes the filter.
C17_WalkReachesCleanPath ==
    loadDone =>
       \A k \in 1..Len(IncludeList) :
          IsClean(IncludeList[k]) =>
             /\ WalkReaches(IncludeList[k], include)
             /\ IncludeList[k] \in include

\* With IncludeList ["/a/a"], Open("/a") has returned a File and Readdir on
\* it, the store listing b and a, has returned the entry a.
C17_Witness ==
    /\ IncludeList = << <<"/", "a", "/", "a">> >>
    /\ ret.op = "Readdir"
    /\ ret.dir = <<"/", "a">>
    /\ ~ret.panic
    /\ ret.store.info = << <<"b">>, <<"a">> >>
    /\ ret.info = << <<"a">> >>

\* C18: the recorder is never stuck and no answer goes to the wrong caller.
\* While it is at achan <- sortedList, the caller whose query it took is the
\* one caller at <-l.a and can take the send, and what is sent is the
\* recorder's set as that query found it; a caller is at <-l.a only while the
\* recorder is sending the answer to its query; and at its select the
\* recorder can take the query, the Changed() and the Clear of every caller,
\* and a request whenever the queue holds one.
C18_AnswersNotCrossed ==
    /\ rpc = "answer" =>
          /\ asker \in Callers
          /\ \A c \in Callers : cpc[c] = "recv" <=> c = asker
          /\ ENABLED SendAnswer(asker)
          /\ sortedList = includeList
          /\ Range(sortedList) = includeMap
    /\ rpc # "answer" =>
          /\ asker = NoCaller
          /\ \A c \in Callers : cpc[c] = "idle"
    /\ rpc = "select" =>
          /\ \A c \in Callers :
                /\ ENABLED RecvQuery(c)
                /\ ENABLED SendChanged(c)
                /\ ENABLED RecvClear(c)
          /\ requests # <<>> => ENABLED RecvRequest

\* The recorder is answering the query of c2 after c1 has had its own answer,
\* while a request waits in the queue and an Open is at its send.
C18_Witness ==
    /\ rpc = "answer"
    /\ asker = "c2"
    /\ cpc["c1"] = "idle"
    /\ ret.op = "List"
    /\ ret.list # sortedList
    /\ requests # <<>>
    /\ \E o \in Openers : opc[o] = "send"

\* C19: with the recorder scheduled fairly, a path waiting in the request
\* queue is eventually taken and is then in the recorder's set; every
\* snapshot computed holds all the paths taken since the start or the last
\* Clear; a full queue eventually has room; and an Open at its send
\* eventually returns.
C19_RequestsAreTaken ==
    /\ \A n \in Names : (n \in Range(requests)) ~> (n \in recorded)
    /\ [](rpc = "answer" => recorded \subseteq Range(sortedList))
    /\ (Len(requests) = RequestsCap) ~> (Len(requests) < RequestsCap)
    /\ \A o \in Openers : (opc[o] = "send") ~> (opc[o] = "idle")

\* The queue is full of requests for "/b", which was never recorded, an Open
\* of "/a" waits at its send, and the recorder has not been started yet.
C19_Witness ==
    /\ Len(requests) = RequestsCap
    /\ Range(requests) = {<<"/", "b">>}
    /\ recorded = {}
    /\ rpc = "none"
    /\ \E o \in Openers : opc[o] = "send" /\ oname[o] = <<"/", "a">>

====
